---- MODULE Spec2Model ----
(***************************************************************************)
(* Model of the prompt optimisation loop of main.py, of the optimizer      *)
(* PromptOptimizer (prompt_optimizer.py) and of the DeepSeek client        *)
(* (api_clients.py).                                                       *)
(*                                                                         *)
(* Text is modelled by its structure.  A label is a sequence of one-letter *)
(* strings, so that strip() and lower() are computed.  A prompt is a       *)
(* sequence of tokens: a section marker ("TASK" for the task marker,       *)
(* "RULES", "REQ", "FMT"), a stray opening bracket "LB", or a piece of     *)
(* body text.  Every marker starts with the one opening bracket that       *)
(* str.split counts.  Numbers that the code holds as floats are exact      *)
(* fractions <<n, d>> in lowest terms.                                     *)
(***************************************************************************)
EXTENDS Integers, Sequences, FiniteSets, TLC

VARIABLES
    pc,                    \* position of main(): generate, progress, evaluate, decide, report, done
    i,                     \* loop variable of main.py:195 (round index is i + 1)
    all_cases,             \* main.py:172
    best_prompt,           \* main.py:165
    best_avg_overlap,      \* main.py:166
    stagnation_count,      \* main.py:167
    stagnation_before,     \* stagnation_count as it was when the round began
    new_prompt,            \* main.py:213 / 243
    progress,              \* main.py:217, the status of the progress report
    context_cases,         \* number of cases held by optimization_context['all_cases']
    all_cases_used,        \* main.py:227
    total_overlap,         \* main.py:246
    avg_overlap,           \* main.py:286
    total_files,           \* main.py:247
    all_results,           \* main.py:248
    predicted,             \* per case of the round: processed_predictions of main.py:257
    saved_results,         \* rounds whose logs/iteration_<n>_results.json was written
    saved_prompts,         \* rounds whose results/best_prompt_<n>.txt was written
    report,                \* results/optimization_report.json
    current_iteration,     \* PromptOptimizer.current_iteration
    optimization_history,  \* PromptOptimizer.optimization_history
    analysed,              \* number of cases generate_prompt looped over in this round
    opt_content,           \* what the optimizer service returned in this round
    opt_calls,             \* calls made to the optimizer service in this round
    sent_prompt,           \* the prompt of the latest call to the predictor service
    events_used,           \* usable answers the two services have delivered so far
    predictor,             \* how the predictor service answers in this run
    warning,               \* what DeepSeekAPI.generate_prompt logged in this round
    opt_request,           \* the context given to DeepSeekAPI.generate_prompt in this round
    ov_pred, ov_truth, ov_result, ov_swapped,  \* arguments and results of calculate_overlap
    df_pred, df_truth, df_result,              \* arguments and result of analyze_differences
    response_text, parsed, fenced_parsed,      \* a response text and what the parser returns
    pg_history, pg_status,                     \* a history and its progress status
    pd_responses, pd_result                    \* the answers to one prediction and its result

vars == <<pc, i, all_cases, best_prompt, best_avg_overlap, stagnation_count, stagnation_before,
          new_prompt, progress, context_cases, all_cases_used, total_overlap, avg_overlap,
          total_files, all_results, predicted, saved_results, saved_prompts,
          report, current_iteration, optimization_history, analysed,
          opt_content, opt_calls, sent_prompt, events_used, predictor, warning, opt_request,
          ov_pred, ov_truth, ov_result, ov_swapped, df_pred, df_truth, df_result,
          response_text, parsed, fenced_parsed, pg_history, pg_status,
          pd_responses, pd_result>>

loop_vars == <<pc, i, all_cases, best_prompt, best_avg_overlap, stagnation_count, stagnation_before,
               new_prompt, progress, context_cases, all_cases_used, total_overlap, avg_overlap,
               total_files, all_results, predicted, saved_results, saved_prompts,
               report, current_iteration, optimization_history, analysed,
               opt_content, opt_calls, sent_prompt, events_used, predictor, warning, opt_request>>

ov_vars == <<ov_pred, ov_truth, ov_result, ov_swapped>>
df_vars == <<df_pred, df_truth, df_result>>
parser_vars == <<response_text, parsed, fenced_parsed>>
pg_vars == <<pg_history, pg_status>>
pd_vars == <<pd_responses, pd_result>>
pure_vars == <<ov_vars, df_vars, parser_vars, pg_vars, pd_vars>>

-----------------------------------------------------------------------------
(* Bounds of the model *)

MaxCases == 4
MaxEvents == 1
MaxListLen == 2
MaxRounds == 3

(* Constants of the program *)

max_iterations == 10
BaseCases == 3
AdjustThreshold == 3
StopThreshold == 5
retries == 3
max_retries == 3

-----------------------------------------------------------------------------
(* Exact fractions *)

RECURSIVE GCD(_, _)
GCD(a, b) == IF b = 0 THEN a ELSE GCD(b, a % b)

Frac(n, d) == LET g == GCD(n, d) IN <<n \div g, d \div g>>

Zero == <<0, 1>>
One == <<1, 1>>

FAdd(x, y) == Frac(x[1] * y[2] + y[1] * x[2], x[2] * y[2])
FDivInt(x, k) == Frac(x[1], x[2] * k)
FLess(x, y) == x[1] * y[2] < y[1] * x[2]
FAbsDiff(x, y) ==
    LET a == x[1] * y[2]
        b == y[1] * x[2]
    IN  Frac(IF a >= b THEN a - b ELSE b - a, x[2] * y[2])

Min(a, b) == IF a <= b THEN a ELSE b
Max(a, b) == IF a >= b THEN a ELSE b

-----------------------------------------------------------------------------
(* Labels: str.strip and str.lower *)

StripChars == {".", ",", " "}
Whitespace == {" ", "NL"}

Lower(c) == CASE c = "A" -> "a" [] c = "B" -> "b" [] OTHER -> c

RECURSIVE StripLeft(_, _)
StripLeft(s, cs) ==
    IF s # <<>> /\ Head(s) \in cs THEN StripLeft(Tail(s), cs) ELSE s

RECURSIVE StripRight(_, _)
StripRight(s, cs) ==
    IF s # <<>> /\ s[Len(s)] \in cs THEN StripRight(SubSeq(s, 1, Len(s) - 1), cs) ELSE s

Strip(s, cs) == StripRight(StripLeft(s, cs), cs)

NormalizeLabel(d) == LET t == Strip(d, StripChars) IN [k \in 1..Len(t) |-> Lower(t[k])]

\* {d.strip('.,，。 \t').lower() for d in labels if d}
LabelSet(labels) ==
    {NormalizeLabel(labels[k]) : k \in {j \in 1..Len(labels) : labels[j] # <<>>}}

-----------------------------------------------------------------------------
(* calculate_overlap of main.py *)

FloatZero == [kind |-> "float", value |-> Zero]

calculate_overlap_by_truth(predicted_diseases, ground_truth) ==
    IF predicted_diseases = <<>> \/ ground_truth = <<>>
    THEN FloatZero
    ELSE LET pred_set == LabelSet(predicted_diseases)
             truth_set == LabelSet(ground_truth)
         IN  IF pred_set = {} \/ truth_set = {}
             THEN FloatZero
             ELSE [kind |-> "dict",
                   score |-> Frac(Cardinality(pred_set \cap truth_set),
                                  Cardinality(truth_set)),
                   overlap_diseases |-> pred_set \cap truth_set,
                   missed_diseases |-> truth_set \ pred_set,
                   extra_diseases |-> pred_set \ truth_set]

calculate_overlap_by_sum(predicted_diseases, ground_truth) ==
    IF predicted_diseases = <<>> \/ ground_truth = <<>>
    THEN FloatZero
    ELSE LET pred_set == LabelSet(predicted_diseases)
             truth_set == LabelSet(ground_truth)
         IN  IF pred_set = {} \/ truth_set = {}
             THEN FloatZero
             ELSE [kind |-> "dict",
                   score |-> Frac(Cardinality(pred_set \cap truth_set),
                                  Cardinality(pred_set) + Cardinality(truth_set)),
                   overlap_diseases |-> pred_set \cap truth_set,
                   missed_diseases |-> truth_set \ pred_set,
                   extra_diseases |-> pred_set \ truth_set]

calculate_overlap(predicted_diseases, ground_truth) ==
    IF predicted_diseases = <<>> \/ ground_truth = <<>>
    THEN FloatZero
    ELSE LET pred_set == LabelSet(predicted_diseases)
             truth_set == LabelSet(ground_truth)
         IN  IF pred_set = {} \/ truth_set = {}
             THEN FloatZero
             ELSE [kind |-> "dict",
                   score |-> Frac(Cardinality(pred_set \cap truth_set),
                                  Cardinality(pred_set \cup truth_set)),
                   overlap_diseases |-> pred_set \cap truth_set,
                   missed_diseases |-> truth_set \ pred_set,
                   extra_diseases |-> pred_set \ truth_set]

\* [str(d).strip() for d in input_data if d is not None], for a list and for
\* a dict that holds a diseases list
process_input_data(labels) == [k \in 1..Len(labels) |-> Strip(labels[k], Whitespace)]

-----------------------------------------------------------------------------
(* PromptOptimizer.analyze_differences *)

analyze_differences_empty_is_perfect(predicted_labels, ground_truth) ==
    LET pred_set == LabelSet(predicted_labels)
        truth_set == LabelSet(ground_truth)
        correct == pred_set \cap truth_set
    IN  [missed_diagnoses |-> truth_set \ pred_set,
         wrong_diagnoses |-> pred_set \ truth_set,
         correct_diagnoses |-> correct,
         accuracy |-> IF truth_set # {}
                      THEN Frac(Cardinality(correct), Max(Cardinality(truth_set), 1))
                      ELSE One,
         precision |-> IF pred_set # {}
                       THEN Frac(Cardinality(correct), Max(Cardinality(pred_set), 1))
                       ELSE One]

analyze_differences_swapped(predicted_labels, ground_truth) ==
    LET pred_set == LabelSet(predicted_labels)
        truth_set == LabelSet(ground_truth)
        correct == pred_set \cap truth_set
    IN  [missed_diagnoses |-> truth_set \ pred_set,
         wrong_diagnoses |-> pred_set \ truth_set,
         correct_diagnoses |-> correct,
         accuracy |-> IF pred_set # {}
                      THEN Frac(Cardinality(correct), Max(Cardinality(pred_set), 1))
                      ELSE Zero,
         precision |-> IF truth_set # {}
                       THEN Frac(Cardinality(correct), Max(Cardinality(truth_set), 1))
                       ELSE Zero]

analyze_differences(predicted_labels, ground_truth) ==
    LET pred_set == LabelSet(predicted_labels)
        truth_set == LabelSet(ground_truth)
        correct == pred_set \cap truth_set
    IN  [missed_diagnoses |-> truth_set \ pred_set,
         wrong_diagnoses |-> pred_set \ truth_set,
         correct_diagnoses |-> correct,
         accuracy |-> IF truth_set # {}
                      THEN Frac(Cardinality(correct), Max(Cardinality(truth_set), 1))
                      ELSE Zero,
         precision |-> IF pred_set # {}
                       THEN Frac(Cardinality(correct), Max(Cardinality(pred_set), 1))
                       ELSE Zero]

-----------------------------------------------------------------------------
(* Response texts.  A text is a sequence of symbols: the punctuation of     *)
(* JSON, the quote Q, the newline NL, the fence FENCE (three backquotes),   *)
(* the language tag "json", letters, digits, "null", and one symbol per key *)
(* name: "D" for diseases, "E" for error, "R" for raw_response.  A decoded  *)
(* value is a record [t, s]: t is its type and s its characters (str, num)  *)
(* or its members (list, dict; a member of a dict is [k, v]).               *)

Q == "Q"

StrVal(chars) == [t |-> "str", s |-> chars]
NumVal(digit) == [t |-> "num", s |-> <<digit>>]
NullVal == [t |-> "null", s |-> <<>>]
ListVal(items) == [t |-> "list", s |-> items]
DictVal(members) == [t |-> "dict", s |-> members]

Digits == {"0", "5"}

ParseError == [ok |-> FALSE, v |-> NullVal, p |-> 0]
Parsed(v, p) == [ok |-> TRUE, v |-> v, p |-> p]

RECURSIVE SkipWs(_, _)
SkipWs(text, p) ==
    IF p <= Len(text) /\ text[p] \in Whitespace THEN SkipWs(text, p + 1) ELSE p

\* the index of the first symbol of text at or after p that is in cs, 0 if none
RECURSIVE Find(_, _, _)
Find(text, cs, p) ==
    IF p > Len(text) THEN 0
    ELSE IF text[p] \in cs THEN p
    ELSE Find(text, cs, p + 1)

\* a string: from the quote at p to the next quote; a raw newline inside is
\* a control character, which the strict decoder refuses
ParseString(text, p) ==
    LET close == Find(text, {Q}, p + 1)
    IN  IF close = 0 THEN ParseError
        ELSE LET chars == SubSeq(text, p + 1, close - 1)
             IN  IF \E k \in 1..Len(chars) : chars[k] = "NL" THEN ParseError
                 ELSE Parsed(StrVal(chars), close + 1)

RECURSIVE ParseValue(_, _), ParseItems(_, _, _), ParseMembers(_, _, _)

\* the items of an array after its first bracket or after a comma
ParseItems(text, p, items) ==
    LET item == ParseValue(text, p)
    IN  IF ~item.ok THEN ParseError
        ELSE LET q == SkipWs(text, item.p)
             IN  IF q > Len(text) THEN ParseError
                 ELSE IF text[q] = "," THEN ParseItems(text, q + 1, Append(items, item.v))
                 ELSE IF text[q] = "]" THEN Parsed(ListVal(Append(items, item.v)), q + 1)
                 ELSE ParseError

\* the members of an object after its brace or after a comma
ParseMembers(text, p, members) ==
    LET k == SkipWs(text, p)
    IN  IF k > Len(text) \/ text[k] # Q THEN ParseError
        ELSE LET key == ParseString(text, k)
                 c == IF key.ok THEN SkipWs(text, key.p) ELSE 0
             IN  IF ~key.ok \/ c > Len(text) \/ text[c] # ":" THEN ParseError
                 ELSE LET val == ParseValue(text, c + 1)
                          q == IF val.ok THEN SkipWs(text, val.p) ELSE 0
                          member == [k |-> key.v.s, v |-> val.v]
                      IN  IF ~val.ok \/ q > Len(text) THEN ParseError
                          ELSE IF text[q] = ","
                               THEN ParseMembers(text, q + 1, Append(members, member))
                          ELSE IF text[q] = "}"
                               THEN Parsed(DictVal(Append(members, member)), q + 1)
                          ELSE ParseError

ParseValue(text, p0) ==
    LET p == SkipWs(text, p0)
    IN  IF p > Len(text) THEN ParseError
        ELSE IF text[p] = Q THEN ParseString(text, p)
        ELSE IF text[p] \in Digits THEN Parsed(NumVal(text[p]), p + 1)
        ELSE IF text[p] = "null" THEN Parsed(NullVal, p + 1)
        ELSE IF text[p] = "["
             THEN LET q == SkipWs(text, p + 1)
                  IN  IF q <= Len(text) /\ text[q] = "]" THEN Parsed(ListVal(<<>>), q + 1)
                      ELSE ParseItems(text, p + 1, <<>>)
        ELSE IF text[p] = "{"
             THEN LET q == SkipWs(text, p + 1)
                  IN  IF q <= Len(text) /\ text[q] = "}" THEN Parsed(DictVal(<<>>), q + 1)
                      ELSE ParseMembers(text, p + 1, <<>>)
        ELSE ParseError

\* json.loads: one value, then nothing but white space
json_loads(text) ==
    LET top == ParseValue(text, 1)
    IN  IF top.ok /\ SkipWs(text, top.p) = Len(text) + 1 THEN top ELSE ParseError

\* key in result, and result[key] (the last member of that name)
HasKey(dict, key) == \E k \in 1..Len(dict.s) : dict.s[k].k = <<key>>
Lookup(dict, key) ==
    LET at == CHOOSE k \in 1..Len(dict.s) :
                  /\ dict.s[k].k = <<key>>
                  /\ \A j \in (k + 1)..Len(dict.s) : dict.s[j].k # <<key>>
    IN  dict.s[at].v

\* the truth value of a decoded value
Truthy(v) ==
    CASE v.t = "null" -> FALSE
      [] v.t = "num" -> v.s # <<"0">>
      [] OTHER -> v.s # <<>>

RECURSIVE PyRepr(_), ReprItems(_, _)

\* repr of the members of a container from the k-th on, comma separated
ReprItems(v, k) ==
    IF k > Len(v.s) THEN <<>>
    ELSE (IF k > 1 THEN <<",", " ">> ELSE <<>>)
             \o (IF v.t = "dict"
                 THEN <<"'">> \o v.s[k].k \o <<"'", ":", " ">> \o PyRepr(v.s[k].v)
                 ELSE PyRepr(v.s[k]))
             \o ReprItems(v, k + 1)

PyRepr(v) ==
    CASE v.t = "str" -> <<"'">> \o v.s \o <<"'">>
      [] v.t = "num" -> v.s
      [] v.t = "null" -> <<"None">>
      [] v.t = "list" -> <<"[">> \o ReprItems(v, 1) \o <<"]">>
      [] OTHER -> <<"{">> \o ReprItems(v, 1) \o <<"}">>

\* str(value)
PyStr(v) == IF v.t = "str" THEN v.s ELSE PyRepr(v)

\* json.dumps({'diseases': diseases}, indent=2) for a list of strings (one
\* space stands for an indentation), and without indent
RECURSIVE DumpItems(_, _, _)
DumpItems(diseases, k, indent) ==
    IF k > Len(diseases) THEN <<>>
    ELSE (IF indent THEN <<"NL", " ">> ELSE IF k > 1 THEN <<" ">> ELSE <<>>)
             \o <<Q>> \o diseases[k] \o <<Q>>
             \o (IF k < Len(diseases) THEN <<",">> ELSE <<>>)
             \o DumpItems(diseases, k + 1, indent)

json_dumps(diseases, indent) ==
    (IF indent THEN <<"{", "NL", " ">> ELSE <<"{">>)
        \o <<Q, "D", Q, ":", " ", "[">>
        \o DumpItems(diseases, 1, indent)
        \o (IF indent /\ diseases # <<>> THEN <<"NL", " ">> ELSE <<>>)
        \o <<"]">>
        \o (IF indent THEN <<"NL", "}">> ELSE <<"}">>)

-----------------------------------------------------------------------------
(* PromptOptimizer.extract_diseases_from_response *)

\* the text between the first line of a fenced block and the next fence
Unfence(response) ==
    LET cleaned_response == Strip(response, Whitespace)
    IN  IF cleaned_response # <<>> /\ cleaned_response[1] = "FENCE"
        THEN LET content_start == Find(cleaned_response, {"NL"}, 1) + 1
                 end_marker == Find(cleaned_response, {"FENCE"}, content_start)
             IN  IF end_marker # 0
                 THEN Strip(SubSeq(cleaned_response, content_start, end_marker - 1),
                            Whitespace)
                 ELSE cleaned_response
        ELSE cleaned_response

\* [str(disease).strip() for disease in diseases if disease and str(disease).strip()]
diseases_of_list(diseases) ==
    LET kept == SelectSeq(diseases,
                          LAMBDA d : Truthy(d) /\ Strip(PyStr(d), Whitespace) # <<>>)
    IN  [k \in 1..Len(kept) |-> Strip(PyStr(kept[k]), Whitespace)]

\* what the body of the try block does with the decoded value
diseases_of_result_ignoring_error(result) ==
    IF result.t # "dict" THEN <<>>
    ELSE IF HasKey(result, "D")
         THEN LET diseases == Lookup(result, "D")
              IN  IF diseases.t = "list" THEN diseases_of_list(diseases.s)
                  ELSE IF Truthy(diseases) THEN <<Strip(PyStr(diseases), Whitespace)>>
                  ELSE <<>>
    ELSE <<>>

diseases_of_result_no_list_branch(result) ==
    IF result.t # "dict" THEN <<>>
    ELSE IF HasKey(result, "E") THEN <<>>
    ELSE IF HasKey(result, "D")
         THEN LET diseases == Lookup(result, "D")
              IN  IF Truthy(diseases) THEN <<Strip(PyStr(diseases), Whitespace)>>
                  ELSE <<>>
    ELSE <<>>

diseases_of_result(result) ==
    IF result.t # "dict" THEN <<>>
    ELSE IF HasKey(result, "E") THEN <<>>
    ELSE IF HasKey(result, "D")
         THEN LET diseases == Lookup(result, "D")
              IN  IF diseases.t = "list" THEN diseases_of_list(diseases.s)
                  ELSE IF Truthy(diseases) THEN <<Strip(PyStr(diseases), Whitespace)>>
                  ELSE <<>>
    ELSE <<>>

\* the body of the try block: json.loads raises on a text it cannot decode
try_body(text) ==
    LET result == json_loads(Unfence(text))
    IN  IF result.ok
        THEN [exc |-> "none", diseases |-> diseases_of_result(result.v)]
        ELSE [exc |-> "JSONDecodeError", diseases |-> <<>>]

\* json.JSONDecodeError, and every other Exception, is caught and answered
\* by the empty list
extract_diseases_from_response(text) ==
    LET outcome == try_body(text)
    IN  [raised |-> FALSE,
         diseases |-> IF outcome.exc = "none" THEN outcome.diseases ELSE <<>>]

-----------------------------------------------------------------------------
(* The predictor: QwenAPI.predict always answers with json.dumps of an      *)
(* object that holds a diseases list of strings, the empty list on every    *)
(* failure; predict_diseases is given the answers decoded, as that object.  *)

\* the loop over range(max_retries): the first attempt whose list is not
\* empty is returned, the empty list after the last attempt
RECURSIVE predict_from(_, _)
predict_from_without_retry(responses, attempt) ==
    [diseases |-> diseases_of_list(responses[attempt].diseases), calls |-> attempt]

predict_from(responses, attempt) ==
    IF attempt > Len(responses)
    THEN [diseases |-> <<>>, calls |-> Len(responses)]
    ELSE LET diseases == diseases_of_list(responses[attempt].diseases)
         IN  IF diseases # <<>>
             THEN [diseases |-> diseases, calls |-> attempt]
             ELSE predict_from(responses, attempt + 1)

predict_diseases(responses) == predict_from(responses, 1)

-----------------------------------------------------------------------------
(* Prompts *)

Markers == <<"TASK", "RULES", "REQ", "FMT">>
MarkerSet == {Markers[k] : k \in 1..4}

base_prompt_template ==
    <<"pre", "TASK", "task", "RULES", "rules0", "REQ", "req", "FMT", "fmt">>

Contains(text, token) == \E k \in 1..Len(text) : text[k] = token

\* len(content.split(bracket)): one more than the number of opening brackets
SplitParts(text) ==
    1 + Cardinality({k \in 1..Len(text) : text[k] \in MarkerSet \cup {"LB"}})

HasAllMarkers(content) == \A m \in MarkerSet : Contains(content, m)

DeepSeekGenerateNoMarkerCheck(base_prompt, content) ==
    IF content.kind = "error" THEN base_prompt
    ELSE IF SplitParts(content.text) # 5 THEN base_prompt
    ELSE content.text

DeepSeekGenerateNoSplitCheck(base_prompt, content) ==
    IF content.kind = "error" THEN base_prompt
    ELSE IF ~HasAllMarkers(content.text) THEN base_prompt
    ELSE content.text

DeepSeekGenerateEmptyOnError(base_prompt, content) ==
    IF content.kind = "error" THEN <<>>
    ELSE IF ~HasAllMarkers(content.text) THEN base_prompt
    ELSE IF SplitParts(content.text) # 5 THEN base_prompt
    ELSE content.text

\* DeepSeekAPI.generate_prompt, from the content the service delivered;
\* kind "error" stands for the exception of the last failed attempt
DeepSeekGenerate(base_prompt, content) ==
    IF content.kind = "error" THEN base_prompt
    ELSE IF ~HasAllMarkers(content.text) THEN base_prompt
    ELSE IF SplitParts(content.text) # 5 THEN base_prompt
    ELSE content.text

\* the line DeepSeekAPI.generate_prompt writes to its log when it discards
\* what the service delivered
DeepSeekWarning(content) ==
    IF content.kind = "error" THEN "failed"
    ELSE IF ~HasAllMarkers(content.text) THEN "incomplete"
    ELSE IF SplitParts(content.text) # 5 THEN "sections"
    ELSE "none"

\* the checks of PromptOptimizer.generate_prompt on the optimized prompt
OptimizerAccepts(optimized_prompt) ==
    optimized_prompt # <<>> /\ Contains(optimized_prompt, "RULES")

-----------------------------------------------------------------------------
(* PromptOptimizer.evaluate_optimization_progress *)

RECURSIVE SumAccuracy(_)
SumAccuracy(results) ==
    IF results = <<>> THEN Zero
    ELSE FAdd(Head(results).differences.accuracy, SumAccuracy(Tail(results)))

IterationAccuracy(iteration) ==
    IF Len(iteration.analysis_results) > 0
    THEN FDivInt(SumAccuracy(iteration.analysis_results), Len(iteration.analysis_results))
    ELSE Zero

AccuracyTrend(history) == [k \in 1..Len(history) |-> IterationAccuracy(history[k])]

Epsilon == <<1, 100>>

ProgressStatusOneDelta(accuracy_trend) ==
    LET n == Len(accuracy_trend)
        is_improving == n >= 2 /\ FLess(accuracy_trend[n - 1], accuracy_trend[n])
        is_stagnating ==
            n >= 3 /\ FLess(FAbsDiff(accuracy_trend[n], accuracy_trend[n - 1]), Epsilon)
    IN  IF is_improving THEN "improving"
        ELSE IF is_stagnating THEN "stagnating"
        ELSE "unstable"

ProgressStatusFromTwoRecords(accuracy_trend) ==
    LET n == Len(accuracy_trend)
        is_improving == n >= 2 /\ FLess(accuracy_trend[n - 1], accuracy_trend[n])
        is_stagnating ==
            n >= 2 /\ \A k \in {n, n - 1} \cap (2..n) :
                          FLess(FAbsDiff(accuracy_trend[k], accuracy_trend[k - 1]), Epsilon)
    IN  IF is_improving THEN "improving"
        ELSE IF is_stagnating THEN "stagnating"
        ELSE "unstable"

ProgressStatus(accuracy_trend) ==
    LET n == Len(accuracy_trend)
        is_improving == n >= 2 /\ FLess(accuracy_trend[n - 1], accuracy_trend[n])
        is_stagnating ==
            n >= 3 /\ \A k \in {n, n - 1} :
                          FLess(FAbsDiff(accuracy_trend[k], accuracy_trend[k - 1]), Epsilon)
    IN  IF is_improving THEN "improving"
        ELSE IF is_stagnating THEN "stagnating"
        ELSE "unstable"

evaluate_optimization_progress_empty_stagnates(history) ==
    IF history = <<>> THEN "stagnating" ELSE ProgressStatus(AccuracyTrend(history))

\* prompt_optimizer.py:341-347 and 369-376
evaluate_optimization_progress(history) ==
    IF history = <<>> THEN "no_progress" ELSE ProgressStatus(AccuracyTrend(history))

-----------------------------------------------------------------------------
(* The environment: the loaded cases and the answers of the two services *)

CaseOf(j) ==
    [case_id |-> j,
     gt_data |-> [kind |-> "dict",
                  diseases |-> IF j % 2 = 1 THEN << <<"A", ".">>, <<"b">> >>
                                            ELSE << <<"a">> >>]]

\* a ground-truth file that holds a bare list instead of an object
ListCase == [case_id |-> 0, gt_data |-> [kind |-> "list", diseases |-> << <<"a">> >>]]

CaseLists ==
    {[j \in 1..n |-> CaseOf(j)] : n \in 0..MaxCases} \cup {<<ListCase>>}

RespEmpty == [diseases |-> <<>>]
HitResponses ==
    {[diseases |-> <<StrVal(<<"a">>)>>],
     [diseases |-> <<StrVal(<<"a">>), StrVal(<<"b">>)>>]}

\* the answers to the calls of one prediction: empty ones, then the hit
Attempts(hit, at) == [k \in 1..at |-> IF k = at THEN hit ELSE RespEmpty]
NoHit == [k \in 1..max_retries |-> RespEmpty]

WithRules(rules) == <<"pre", "TASK", "task", "RULES", rules, "REQ", "req", "FMT", "fmt">>
Without(text, token) == SelectSeq(text, LAMBDA t : t # token)

\* well-formed for the checks of the client: a rewrite of the rules, the
\* sections in another order, another section rewritten
ValidContents ==
    {WithRules("rules1"),
     <<"pre", "RULES", "rules1", "TASK", "task", "REQ", "req", "FMT", "fmt">>,
     <<"pre", "TASK", "task", "RULES", "rules1", "REQ", "req1", "FMT", "fmt">>}

\* rejected by the checks: a marker missing, a marker under another name
\* (its bracket stays), one bracket too many, no text
InvalidContents ==
    {Without(WithRules("rules1"), m) : m \in MarkerSet}
        \cup {<<"pre", "LB", "task", "RULES", "rules1", "REQ", "req", "FMT", "fmt">>,
              <<"pre", "TASK", "task", "LB", "rules1", "REQ", "req", "FMT", "fmt">>,
              <<"pre", "TASK", "task", "RULES", "LB", "rules1", "REQ", "req", "FMT", "fmt">>,
              <<>>}

\* the attempt that answers the cases of H
HitAttempts(H) == IF H = {} THEN {1} ELSE 1..max_retries

NoContent == [kind |-> "none", text |-> <<>>]
ErrorContent == [kind |-> "error", text |-> <<>>]
TextContent(text) == [kind |-> "text", text |-> text]

\* DeepSeekAPI._make_api_call: the content of the first attempt that does not
\* fail, after calls attempts, or the exception of the last of retries attempts
OptimizerOutcomes ==
    {[content |-> ErrorContent, calls |-> retries]}
        \cup {[content |-> TextContent(t), calls |-> 1] : t \in InvalidContents \cup ValidContents}
        \cup {[content |-> TextContent(WithRules("rules1")), calls |-> k] : k \in 2..retries}
        \cup {[content |-> TextContent(<<>>), calls |-> k] : k \in 2..retries}

-----------------------------------------------------------------------------
(* The initial state: main.py:164-190 and PromptOptimizer.__init__ *)

NoResult == [kind |-> "none"]
NoRequest == [kind |-> "none"]
NoReport == [written |-> FALSE, total_iterations |-> 0, best_accuracy |-> Zero,
             optimization_status |-> "none"]

OverlapIdle ==
    /\ ov_pred = <<>>
    /\ ov_truth = <<>>
    /\ ov_result = NoResult
    /\ ov_swapped = NoResult

DifferencesIdle ==
    /\ df_pred = <<>>
    /\ df_truth = <<>>
    /\ df_result = NoResult

ParserIdle ==
    /\ response_text = <<>>
    /\ parsed = NoResult
    /\ fenced_parsed = NoResult

ProgressIdle ==
    /\ pg_history = <<>>
    /\ pg_status = "none"

PredictIdle ==
    /\ pd_responses = <<>>
    /\ pd_result = NoResult

LoopStart(cases, at) ==
    /\ pc = at
    /\ i = 0
    /\ all_cases = cases
    /\ best_prompt = base_prompt_template
    /\ best_avg_overlap = Zero
    /\ stagnation_count = 0
    /\ stagnation_before = 0
    /\ new_prompt = <<>>
    /\ progress = "none"
    /\ context_cases = 0
    /\ all_cases_used = 0
    /\ total_overlap = Zero
    /\ avg_overlap = Zero
    /\ total_files = 0
    /\ all_results = <<>>
    /\ predicted = <<>>
    /\ saved_results = {}
    /\ saved_prompts = {}
    /\ report = NoReport
    /\ current_iteration = 0
    /\ optimization_history = <<>>
    /\ analysed = 0
    /\ opt_content = NoContent
    /\ opt_calls = 0
    /\ sent_prompt = <<>>
    /\ events_used = 0
    /\ warning = "none"
    /\ opt_request = NoRequest

Init ==
    /\ \E cases \in CaseLists : LoopStart(cases, "generate")
    /\ predictor = "any"
    /\ OverlapIdle /\ DifferencesIdle /\ ParserIdle /\ ProgressIdle /\ PredictIdle

-----------------------------------------------------------------------------
(* PromptOptimizer.generate_prompt, called at main.py:203-213 *)

\* the cases of optimization_context: all_cases[:3]
ContextCases == SubSeq(all_cases, 1, Min(BaseCases, Len(all_cases)))

\* analyze_results for one case; the analyzer's text is opaque
CaseAnalysis(case, responses) ==
    LET predictions == predict_diseases(responses).diseases
        gt_diseases == case.gt_data.diseases
    IN  [case_id |-> case.case_id,
         predictions |-> predictions,
         ground_truth |-> gt_diseases,
         differences |-> analyze_differences(predictions, gt_diseases),
         analysis_report |-> "report"]

\* the loop over the cases; gt_data.get fails on a bare list and the case is skipped
RECURSIVE AnalysisResults(_, _, _)
AnalysisResults(cases, responses, k) ==
    IF k > Len(cases) THEN <<>>
    ELSE IF cases[k].gt_data.kind # "dict"
         THEN AnalysisResults(cases, responses, k + 1)
         ELSE <<CaseAnalysis(cases[k], responses[k])>>
                  \o AnalysisResults(cases, responses, k + 1)

UnionOver(results, field) ==
    UNION {results[k].differences[field] : k \in 1..Len(results)}

IterationDataOfRoundOne(iteration, base_prompt, optimized_prompt, results, cases) ==
    [iteration |-> 1,
     old_prompt |-> base_prompt,
     new_prompt |-> optimized_prompt,
     analysis_results |-> results,
     summary |-> [total_cases |-> Len(cases),
                  common_missed_diagnoses |-> UnionOver(results, "missed_diagnoses"),
                  common_wrong_diagnoses |-> UnionOver(results, "wrong_diagnoses")]]

\* prompt_optimizer.py:298-309
IterationData(iteration, base_prompt, optimized_prompt, results, cases) ==
    [iteration |-> iteration,
     old_prompt |-> base_prompt,
     new_prompt |-> optimized_prompt,
     analysis_results |-> results,
     summary |-> [total_cases |-> Len(cases),
                  common_missed_diagnoses |-> UnionOver(results, "missed_diagnoses"),
                  common_wrong_diagnoses |-> UnionOver(results, "wrong_diagnoses")]]

\* the answers of the predictor to the predictions of cases 1..n: the cases
\* of H are answered by hit[j] at attempt at, the others never
Answers(n, H, hit, at) ==
    [j \in 1..n |-> IF j \in H THEN Attempts(hit[j], at) ELSE NoHit]

\* a predictor that answers every call for a case with the ground truth of
\* the case, as it stands in the file
ExactAnswer(case) ==
    [k \in 1..max_retries |->
        [diseases |-> [d \in 1..Len(case.gt_data.diseases) |->
                          StrVal(case.gt_data.diseases[d])]]]

\* the answers of the predictor to one pass over cases, with the usable
\* answers they take from budget: any answers, or the answers of a predictor
\* that is always exact, or always empty
PredictorAnswers(cases, budget) ==
    IF predictor = "exact"
    THEN {[responses |-> [j \in 1..Len(cases) |-> ExactAnswer(cases[j])], events |-> 0]}
    ELSE IF predictor = "empty"
    THEN {[responses |-> [j \in 1..Len(cases) |-> NoHit], events |-> 0]}
    ELSE UNION {{[responses |-> Answers(Len(cases), H, hit, at),
                  events |-> Cardinality(H)] :
                     hit \in [H -> HitResponses], at \in HitAttempts(H)} :
                H \in {G \in SUBSET (1..Len(cases)) : Cardinality(G) <= budget}}

\* prompt_optimizer.py:218-231
CaseAnalyses(analysis_results) ==
    [k \in 1..Len(analysis_results) |->
        [case_id |-> analysis_results[k].case_id,
         predictions |-> analysis_results[k].predictions,
         ground_truth |-> analysis_results[k].ground_truth,
         missed_diagnoses |-> analysis_results[k].differences.missed_diagnoses,
         wrong_diagnoses |-> analysis_results[k].differences.wrong_diagnoses,
         analysis_report |-> analysis_results[k].analysis_report]]

PreviousAnalysisOfFirstRecord(history) ==
    LET last_iteration == history[1]
    IN  [kind |-> "dict",
         prompt |-> last_iteration.new_prompt,
         case_analyses |-> CaseAnalyses(last_iteration.analysis_results),
         analysis_summary |-> last_iteration.summary]

\* prompt_optimizer.py:210 and 238-242
PreviousAnalysis(history) ==
    LET last_iteration == history[Len(history)]
    IN  [kind |-> "dict",
         prompt |-> last_iteration.new_prompt,
         case_analyses |-> CaseAnalyses(last_iteration.analysis_results),
         analysis_summary |-> last_iteration.summary]

None == [kind |-> "None"]

\* the context of the call of deepseek_optimizer.generate_prompt:
\* prompt_optimizer.py:199-204 in round 1, 245-249 afterwards
OptimizerRequest(base_prompt, iteration, history) ==
    [kind |-> "request",
     base_prompt |-> base_prompt,
     iteration |-> iteration,
     previous_analysis |-> IF iteration = 1 THEN None ELSE PreviousAnalysis(history)]

ReturnBase ==
    /\ new_prompt' = best_prompt
    /\ UNCHANGED <<optimization_history, sent_prompt>>

GeneratePrompt ==
    /\ pc = "generate"
    /\ pc' = "progress"
    /\ current_iteration' = i + 1
    /\ context_cases' = Len(ContextCases)
    /\ stagnation_before' = stagnation_count
    /\ IF ContextCases = <<>> \/ (i + 1 # 1 /\ optimization_history = <<>>)
       THEN /\ ReturnBase
            /\ analysed' = 0
            /\ warning' = "none"
            /\ opt_request' = NoRequest
            /\ UNCHANGED <<opt_content, opt_calls, events_used>>
       ELSE \E outcome \in OptimizerOutcomes :
            LET delivered == IF outcome.content.text \in ValidContents THEN 1 ELSE 0
                optimized_prompt == DeepSeekGenerate(best_prompt, outcome.content)
            IN  /\ events_used + delivered <= MaxEvents
                /\ opt_content' = outcome.content
                /\ opt_calls' = outcome.calls
                /\ warning' = DeepSeekWarning(outcome.content)
                /\ opt_request' = OptimizerRequest(best_prompt, i + 1, optimization_history)
                /\ IF ~OptimizerAccepts(optimized_prompt)
                   THEN /\ ReturnBase
                        /\ analysed' = 0
                        /\ events_used' = events_used + delivered
                   ELSE \E answer \in PredictorAnswers(ContextCases,
                                            MaxEvents - events_used - delivered) :
                        LET results == AnalysisResults(ContextCases, answer.responses, 1)
                        IN  /\ analysed' = Len(ContextCases)
                            /\ sent_prompt' = optimized_prompt
                            /\ events_used' = events_used + delivered + answer.events
                            /\ IF results = <<>>
                               THEN /\ new_prompt' = best_prompt
                                    /\ UNCHANGED optimization_history
                               ELSE /\ new_prompt' = optimized_prompt
                                    /\ optimization_history' =
                                           Append(optimization_history,
                                               IterationData(i + 1, best_prompt,
                                                   optimized_prompt, results,
                                                   ContextCases))
    /\ UNCHANGED <<i, all_cases, best_prompt, best_avg_overlap, stagnation_count,
                   progress, all_cases_used, total_overlap, avg_overlap, total_files,
                   all_results, predicted, saved_results, saved_prompts, report,
                   predictor>>
    /\ UNCHANGED pure_vars

-----------------------------------------------------------------------------
(* main.py:216-231: the progress report and the stagnation counter *)

NextStagnationNoReset(status, count) == IF status = "stagnating" THEN count + 1 ELSE count

\* main.py:222-231
NextStagnation(status, count) == IF status = "stagnating" THEN count + 1 ELSE 0

CheckProgress ==
    /\ pc = "progress"
    /\ pc' = "evaluate"
    /\ LET status == evaluate_optimization_progress(optimization_history)
       IN  /\ progress' = status
           /\ stagnation_count' = NextStagnation(status, stagnation_count)
           /\ IF status = "stagnating"
              THEN IF stagnation_count + 1 >= AdjustThreshold
                   THEN /\ all_cases_used' =
                               Min(Len(all_cases), BaseCases + stagnation_count + 1)
                        /\ context_cases' =
                               Min(Len(all_cases), BaseCases + stagnation_count + 1)
                   ELSE UNCHANGED <<all_cases_used, context_cases>>
              ELSE UNCHANGED <<all_cases_used, context_cases>>
    \* the content and the call count are locals of the finished call
    /\ opt_content' = NoContent
    /\ opt_calls' = 0
    /\ warning' = "none"
    /\ opt_request' = NoRequest
    /\ UNCHANGED <<i, all_cases, best_prompt, best_avg_overlap, stagnation_before,
                   new_prompt, total_overlap, avg_overlap, total_files, all_results, predicted,
                   saved_results, saved_prompts, report, current_iteration,
                   optimization_history, analysed, sent_prompt, events_used, predictor>>
    /\ UNCHANGED pure_vars

-----------------------------------------------------------------------------
(* main.py:245-288: the evaluation of new_prompt over all the cases *)

\* processed_predictions of one case
Processed(responses) == process_input_data(predict_diseases(responses).diseases)

\* one pass of the loop body: reading the score of a float raises, the
\* exception is caught at main.py:282 and the case is left out
RECURSIVE EvaluateCases(_, _, _, _)
EvaluateCases(cases, responses, iteration, k) ==
    IF k > Len(cases) THEN [total_overlap |-> Zero, total_files |-> 0, all_results |-> <<>>]
    ELSE LET rest == EvaluateCases(cases, responses, iteration, k + 1)
             processed_predictions == Processed(responses[k])
             processed_gt == process_input_data(cases[k].gt_data.diseases)
             overlap_result == calculate_overlap(processed_predictions, processed_gt)
         IN  IF overlap_result.kind # "dict" THEN rest
             ELSE [total_overlap |-> FAdd(overlap_result.score, rest.total_overlap),
                   total_files |-> rest.total_files + 1,
                   all_results |->
                       <<[case_id |-> cases[k].case_id,
                          iteration |-> iteration,
                          predicted |-> processed_predictions,
                          ground_truth |-> processed_gt,
                          overlap |-> overlap_result.score]>> \o rest.all_results]

\* main.py:286
Average(total, files) == IF files > 0 THEN FDivInt(total, files) ELSE Zero

Evaluate ==
    /\ pc = "evaluate"
    /\ pc' = "decide"
    /\ \E answer \in PredictorAnswers(all_cases, MaxEvents - events_used) :
       LET responses == answer.responses
           round == EvaluateCases(all_cases, responses, i + 1, 1)
       IN  /\ total_overlap' = round.total_overlap
           /\ total_files' = round.total_files
           /\ all_results' = round.all_results
           /\ avg_overlap' = Average(round.total_overlap, round.total_files)
           /\ predicted' = [j \in 1..Len(all_cases) |-> Processed(responses[j])]
           /\ events_used' = events_used + answer.events
    /\ sent_prompt' = IF all_cases # <<>> THEN new_prompt ELSE sent_prompt
    /\ UNCHANGED <<i, all_cases, best_prompt, best_avg_overlap, stagnation_count, stagnation_before,
                   new_prompt, progress, context_cases, all_cases_used, saved_results,
                   saved_prompts, report, current_iteration, optimization_history,
                   analysed, opt_content, opt_calls, predictor, warning, opt_request>>
    /\ UNCHANGED pure_vars

-----------------------------------------------------------------------------
(* main.py:290-322: the best prompt, the saved files and the end of the loop *)

ImprovedOrTied(avg, best) == ~FLess(avg, best)

\* main.py:290
Improved(avg, best) == FLess(best, avg)

StagnatedLate(count) == count > StopThreshold

\* main.py:320
Stagnated(count) == count >= StopThreshold

Decide ==
    /\ pc = "decide"
    /\ IF Improved(avg_overlap, best_avg_overlap)
       THEN /\ best_avg_overlap' = avg_overlap
            /\ best_prompt' = new_prompt
            /\ saved_prompts' = saved_prompts \cup {i + 1}
       ELSE UNCHANGED <<best_avg_overlap, best_prompt, saved_prompts>>
    /\ IF Improved(avg_overlap, best_avg_overlap) /\ avg_overlap = One
       THEN \* break at main.py:303, before the results of the round are saved
            /\ pc' = "report"
            /\ UNCHANGED <<i, saved_results>>
       ELSE /\ saved_results' = saved_results \cup {i + 1}
            /\ IF Stagnated(stagnation_count)
               THEN pc' = "report" /\ UNCHANGED i
               ELSE IF i + 1 < max_iterations
                    THEN pc' = "generate" /\ i' = i + 1
                    ELSE pc' = "report" /\ UNCHANGED i
    /\ UNCHANGED <<all_cases, stagnation_count, stagnation_before, new_prompt, progress,
                   context_cases,
                   all_cases_used, total_overlap, avg_overlap, total_files, all_results,
                   predicted, report, current_iteration, optimization_history, analysed,
                   opt_content, opt_calls, sent_prompt, events_used, predictor, warning, opt_request>>
    /\ UNCHANGED pure_vars

(* main.py:324-337: the final report *)

Report ==
    /\ pc = "report"
    /\ pc' = "done"
    /\ report' = [written |-> TRUE,
                  total_iterations |-> i + 1,
                  best_accuracy |-> best_avg_overlap,
                  optimization_status |->
                      evaluate_optimization_progress(optimization_history)]
    /\ UNCHANGED <<i, all_cases, best_prompt, best_avg_overlap, stagnation_count, stagnation_before,
                   new_prompt, progress, context_cases, all_cases_used, total_overlap,
                   avg_overlap, total_files, all_results, predicted, saved_results,
                   saved_prompts, current_iteration, optimization_history, analysed,
                   opt_content, opt_calls, sent_prompt, events_used, predictor, warning, opt_request>>
    /\ UNCHANGED pure_vars

Next == GeneratePrompt \/ CheckProgress \/ Evaluate \/ Decide \/ Report

Spec == Init /\ [][Next]_vars

-----------------------------------------------------------------------------
(* The loop with a predictor that always answers the same way: with the    *)
(* ground truth of the case, or with the empty list                        *)

GroundTruths == {<<>>, << <<"a">> >>, << <<"A", ".">>, <<" ", "b">> >>}

\* three cases, with every choice of ground truths
ThreeCases ==
    {[j \in 1..3 |-> [case_id |-> j, gt_data |-> [kind |-> "dict", diseases |-> gts[j]]]] :
        gts \in [1..3 -> GroundTruths]}

InitScenario ==
    /\ \E cases \in CaseLists \cup ThreeCases : LoopStart(cases, "generate")
    /\ predictor \in {"exact", "empty"}
    /\ OverlapIdle /\ DifferencesIdle /\ ParserIdle /\ ProgressIdle /\ PredictIdle

SpecScenario == InitScenario /\ [][Next]_vars

-----------------------------------------------------------------------------
(* calculate_overlap applied to two label lists *)

LabelStrings ==
    {<<>>, <<".">>, <<"a">>, <<"A", ".">>, <<"b">>, <<" ", "b">>}

LabelLists == UNION {[1..n -> LabelStrings] : n \in 0..MaxListLen}

InitOverlap ==
    /\ LoopStart(<<>>, "overlap")
    /\ predictor = "any"
    /\ ov_pred \in LabelLists
    /\ ov_truth \in LabelLists
    /\ ov_result = NoResult
    /\ ov_swapped = NoResult
    /\ DifferencesIdle /\ ParserIdle /\ ProgressIdle /\ PredictIdle

ApplyOverlap ==
    /\ pc = "overlap"
    /\ ov_result = NoResult
    /\ ov_result' = calculate_overlap(ov_pred, ov_truth)
    /\ ov_swapped' = calculate_overlap(ov_truth, ov_pred)
    /\ UNCHANGED <<ov_pred, ov_truth>>
    /\ UNCHANGED <<loop_vars, df_vars, parser_vars, pg_vars, pd_vars>>

NextOverlap == ApplyOverlap

SpecOverlap == InitOverlap /\ [][NextOverlap]_vars

-----------------------------------------------------------------------------
(* analyze_differences applied to two label lists *)

InitDifferences ==
    /\ LoopStart(<<>>, "differences")
    /\ predictor = "any"
    /\ df_pred \in LabelLists
    /\ df_truth \in LabelLists
    /\ df_result = NoResult
    /\ OverlapIdle /\ ParserIdle /\ ProgressIdle /\ PredictIdle

ApplyDifferences ==
    /\ pc = "differences"
    /\ df_result = NoResult
    /\ df_result' = [kind |-> "dict", report |-> analyze_differences(df_pred, df_truth)]
    /\ UNCHANGED <<df_pred, df_truth>>
    /\ UNCHANGED <<loop_vars, ov_vars, parser_vars, pg_vars, pd_vars>>

NextDifferences == ApplyDifferences

SpecDifferences == InitDifferences /\ [][NextDifferences]_vars

-----------------------------------------------------------------------------
(* extract_diseases_from_response applied to a response text *)

DiseaseStrings == {<<>>, <<"a">>, <<"b">>, <<" ", "a">>, <<" ">>, <<"a", "FENCE">>}

DiseaseLists == UNION {[1..n -> DiseaseStrings] : n \in 0..MaxListLen}

\* the encodings of the lists, with and without indentation
EncodedTexts == {json_dumps(list, indent) : list \in DiseaseLists, indent \in BOOLEAN}

\* {"diseases": <one value>}
SingleText(value) == <<"{", Q, "D", Q, ":", " ">> \o value \o <<"}">>

\* objects that signal an error, with and without a diseases field
ErrorTexts ==
    {<<"{", Q, "E", Q, ":", " ", Q, "x", Q, ",", " ",
       Q, "D", Q, ":", " ", "[", Q, "a", Q, "]", "}">>,
     <<"{", Q, "D", Q, ":", " ", "[", Q, "a", Q, "]", ",", " ",
       Q, "E", Q, ":", " ", "null", "}">>,
     <<"{", Q, "E", Q, ":", " ", Q, "x", Q, ",", " ",
       Q, "R", Q, ":", " ", Q, "a", Q, "}">>}

\* texts that do not decode to an object with a diseases field: not JSON,
\* JSON cut short or with a trailing comma or with text after it, a value
\* that is not an object, an object without the field, a fence without a
\* line break, a fence that is never closed
NoDiseasesTexts ==
    {<<>>,
     <<"a">>,
     <<"{", Q, "D", Q, ":", " ", "[", Q, "a", Q, "]">>,
     <<"{", Q, "D", Q, ":", " ", "[", Q, "a", Q, ",", "]", "}">>,
     <<"{", Q, "D", Q, ":", " ", "[", Q, "a", Q, "]", "}", " ", "a">>,
     <<"{", Q, "D", Q, ":", " ", "[", Q, "a", "NL", Q, "]", "}">>,
     <<"[", Q, "a", Q, "]">>,
     <<Q, "a", Q>>,
     <<"5">>,
     <<"{", "}">>,
     <<"{", Q, "R", Q, ":", " ", Q, "a", Q, "}">>,
     <<"FENCE">> \o SingleText(<<"[", Q, "a", Q, "]">>) \o <<"FENCE">>,
     <<"FENCE", "json", "NL">> \o SingleText(<<"[", Q, "a", Q, "]">>)}

\* objects whose diseases field is not a list of strings, an object that
\* holds the field twice, a fenced block with text after it
OtherTexts ==
    {SingleText(<<Q, "a", Q>>),
     SingleText(<<Q, " ", "a", " ", Q>>),
     SingleText(<<Q, " ", Q>>),
     SingleText(<<Q, Q>>),
     SingleText(<<"5">>),
     SingleText(<<"0">>),
     SingleText(<<"null">>),
     SingleText(<<"{", Q, "R", Q, ":", " ", "5", "}">>),
     SingleText(<<"[", "5", ",", " ", "null", ",", " ", "0", ",", " ",
                  "[", Q, "a", Q, "]", ",", " ", Q, "a", Q, "]">>),
     <<"{", Q, "D", Q, ":", " ", "[", Q, "a", Q, "]", ",", " ",
       Q, "D", Q, ":", " ", "[", Q, "b", Q, "]", "}">>,
     <<" ", "FENCE", "NL">> \o SingleText(<<"[", Q, "a", Q, "]">>)
         \o <<"NL", "FENCE", "NL", "a">>}

ResponseTexts == EncodedTexts \cup ErrorTexts \cup NoDiseasesTexts \cup OtherTexts

\* a text as a fenced block: the line of the opening fence, the text, the
\* closing fence
Fenced(text) == <<"FENCE", "json", "NL">> \o text \o <<"NL", "FENCE">>

InitParser ==
    /\ LoopStart(<<>>, "parser")
    /\ predictor = "any"
    /\ response_text \in ResponseTexts
    /\ parsed = NoResult
    /\ fenced_parsed = NoResult
    /\ OverlapIdle /\ DifferencesIdle /\ ProgressIdle /\ PredictIdle

ApplyParser ==
    /\ pc = "parser"
    /\ parsed = NoResult
    /\ parsed' = extract_diseases_from_response(response_text)
    /\ fenced_parsed' = extract_diseases_from_response(Fenced(response_text))
    /\ UNCHANGED response_text
    /\ UNCHANGED <<loop_vars, ov_vars, df_vars, pg_vars, pd_vars>>

NextParser == ApplyParser

SpecParser == InitParser /\ [][NextParser]_vars

-----------------------------------------------------------------------------
(* evaluate_optimization_progress applied to a history *)

\* the recall of the cases of one recorded round
RoundAccuracies ==
    {<<x>> : x \in {Zero, <<1, 5>>, <<3, 10>>, <<1, 2>>, <<101, 200>>, <<9, 10>>}}
        \cup {<<Zero, One>>, << <<1, 2>>, <<101, 200>> >>}

\* the history that holds these rounds; only the fields that the progress
\* report reads are filled
HistoryOf(rounds) ==
    [k \in 1..Len(rounds) |->
        [iteration |-> k,
         analysis_results |->
             [j \in 1..Len(rounds[k]) |-> [differences |-> [accuracy |-> rounds[k][j]]]]]]

Histories == {HistoryOf(rounds) : rounds \in UNION {[1..n -> RoundAccuracies] : n \in 0..MaxRounds}}

InitProgress ==
    /\ LoopStart(<<>>, "status")
    /\ predictor = "any"
    /\ pg_history \in Histories
    /\ pg_status = "none"
    /\ OverlapIdle /\ DifferencesIdle /\ ParserIdle /\ PredictIdle

ApplyProgress ==
    /\ pc = "status"
    /\ pg_status = "none"
    /\ pg_status' = evaluate_optimization_progress(pg_history)
    /\ UNCHANGED pg_history
    /\ UNCHANGED <<loop_vars, ov_vars, df_vars, parser_vars, pd_vars>>

NextProgress == ApplyProgress

SpecProgress == InitProgress /\ [][NextProgress]_vars

-----------------------------------------------------------------------------
(* predict_diseases applied to the answers of the predictor service *)

\* what QwenAPI.predict can answer to one call: the object of its
\* json.dumps, with a list of non-empty trimmed strings
PredictorResponses ==
    {RespEmpty, [diseases |-> <<StrVal(<<"b">>)>>],
     [diseases |-> <<StrVal(<<"b">>), StrVal(<<"a">>)>>]} \cup HitResponses

InitPredict ==
    /\ LoopStart(<<>>, "predict")
    /\ predictor = "any"
    /\ pd_responses \in [1..max_retries -> PredictorResponses]
    /\ pd_result = NoResult
    /\ OverlapIdle /\ DifferencesIdle /\ ParserIdle /\ ProgressIdle

ApplyPredict ==
    /\ pc = "predict"
    /\ pd_result = NoResult
    /\ pd_result' = [kind |-> "list"] @@ predict_diseases(pd_responses)
    /\ UNCHANGED pd_responses
    /\ UNCHANGED <<loop_vars, ov_vars, df_vars, parser_vars, pg_vars>>

NextPredict == ApplyPredict

SpecPredict == InitPredict /\ [][NextPredict]_vars

-----------------------------------------------------------------------------
(* Properties of the control loop *)

BestPair == <<best_prompt, best_avg_overlap>>

C2_StopsExactlyOnTheThreeCauses ==
    [][/\ i' + 1 <= max_iterations
       /\ pc = "decide" =>
              /\ pc' = "report" <=>
                     \/ i + 1 = max_iterations
                     \/ avg_overlap = One
                     \/ stagnation_count >= StopThreshold
              /\ pc' # "report" => pc' = "generate" /\ i' = i + 1
       /\ pc' = "report" => pc = "decide"]_vars

\* the loop was ended by the stagnation threshold alone
C2_Witness ==
    /\ pc = "report"
    /\ stagnation_count >= StopThreshold
    /\ i + 1 < max_iterations
    /\ avg_overlap # One

\* C3 (as stated): over a round, stagnation_count is reset to 0 when the
\* aggregate strictly exceeds the best score and is incremented by exactly 1
\* when it does not.
C3_StagnationFollowsScore ==
    [][pc = "decide" =>
           stagnation_count' = IF FLess(best_avg_overlap, avg_overlap)
                               THEN 0
                               ELSE stagnation_before + 1]_vars

\* C3 (amended): stagnation_count is incremented by exactly 1 in a round
\* whose progress report, taken after the prompt was generated, reads
\* stagnating, and is reset to 0 in every other round; evaluation and the
\* decision step leave it alone.
C3_StagnationFollowsProgress ==
    [][/\ pc = "progress" =>
              stagnation_count' = IF progress' = "stagnating"
                                  THEN stagnation_count + 1
                                  ELSE 0
       /\ pc # "progress" => stagnation_count' = stagnation_count]_vars

\* a second stagnating round in a row has been counted, and a round with an
\* aggregate above the best score did not reset the count
C3_Witness ==
    /\ pc \in {"generate", "report"}
    /\ progress = "stagnating"
    /\ stagnation_count = 2
    /\ best_avg_overlap = avg_overlap
    /\ FLess(Zero, avg_overlap)

\* C4: in a round whose progress report reads stagnating, the cases that
\* the round ran the predictor over for its analysis are the first
\* min(total, 3 + stagnation_count) cases.
C4_SampleGrowsWhileStagnating ==
    (pc = "evaluate" /\ progress = "stagnating") =>
        analysed = Min(Len(all_cases), BaseCases + stagnation_count)

-----------------------------------------------------------------------------
(* Properties of the prompt skeleton *)

\* all four section markers, and 5 parts on the opening bracket
FourMarkersFiveParts(text) ==
    /\ \A m \in MarkerSet : \E k \in 1..Len(text) : text[k] = m
    /\ Cardinality({k \in 1..Len(text) : text[k] \in MarkerSet \cup {"LB"}}) = 4

\* C5: a candidate of the optimizer service that lacks one of the four
\* section markers, or does not split into exactly 5 parts, is discarded:
\* generation yields the previous best prompt, nothing else enters the
\* history, and the round goes on to be evaluated with that prompt.
C5_InvalidCandidateFallsBack ==
    [][/\ (pc = "generate" /\ opt_content'.kind = "text"
              /\ ~FourMarkersFiveParts(opt_content'.text)) =>
              /\ new_prompt' = best_prompt
              /\ pc' = "progress"
              /\ \A k \in 1..Len(optimization_history') :
                     optimization_history'[k].new_prompt # opt_content'.text
       /\ pc = "progress" => pc' = "evaluate" /\ new_prompt' = new_prompt
       /\ pc = "evaluate" =>
              /\ pc' = "decide"
              /\ all_cases # <<>> => sent_prompt' = new_prompt]_vars

\* the candidate without the rules marker was discarded
C5_Witness ==
    /\ pc = "progress"
    /\ opt_content = TextContent(Without(WithRules("rules1"), "RULES"))
    /\ new_prompt = best_prompt
    /\ optimization_history # <<>>

\* C6: best_prompt and every prompt passed to the predictor service hold
\* all four section markers and split into exactly 5 parts.
C6_SkeletonInvariant ==
    /\ FourMarkersFiveParts(best_prompt)
    /\ sent_prompt # <<>> => FourMarkersFiveParts(sent_prompt)
    /\ pc \in {"progress", "evaluate", "decide"} => FourMarkersFiveParts(new_prompt)

\* a prompt written by the optimizer service was passed to the predictor
C6_Witness ==
    /\ pc = "decide"
    /\ sent_prompt = WithRules("rules1")
    /\ best_prompt = base_prompt_template

\* the four sections in the order of the template, the three sections
\* other than the rules as in the template
KeepsSkeleton(text) ==
    /\ Len(text) = Len(base_prompt_template)
    /\ \A k \in 1..Len(text) : k # 5 => text[k] = base_prompt_template[k]

\* C7: every prompt that is evaluated or committed as best_prompt has its
\* sections in the order of the template and differs from the initial
\* template in the content of the rules section only.
C7_OnlyRulesChange ==
    /\ KeepsSkeleton(best_prompt)
    /\ sent_prompt # <<>> => KeepsSkeleton(sent_prompt)

-----------------------------------------------------------------------------
(* Properties of the scores *)

\* C8: at the end of the evaluation every case is in the results of the
\* round, a case with an empty prediction with the score 0, and the
\* aggregate is the mean of the scores of the results (0 without results).
C8_EmptyPredictionCounts ==
    pc = "decide" =>
        /\ Len(all_results) = Len(all_cases)
        /\ \A j \in 1..Len(all_cases) :
               predicted[j] = <<>> =>
                   \E k \in 1..Len(all_results) :
                       /\ all_results[k].case_id = all_cases[j].case_id
                       /\ all_results[k].overlap = Zero
        /\ avg_overlap = IF all_results = <<>> THEN Zero
                         ELSE FDivInt(total_overlap, Len(all_results))

ScoreOf(result) == IF result.kind = "dict" THEN result.score ELSE result.value

Jaccard(P, T) == Frac(Cardinality(P \cap T), Cardinality(P \cup T))

\* C9: the score of calculate_overlap is |P n T| / |P u T| on the
\* normalized sets, the same with the arguments swapped, within [0, 1],
\* 1 for equal non-empty sets and 0 for disjoint sets.
C9_ScoreIsJaccard ==
    ov_result # NoResult =>
        LET P == LabelSet(ov_pred)
            T == LabelSet(ov_truth)
            score == ScoreOf(ov_result)
        IN  /\ P \cup T # {} => score = Jaccard(P, T)
            /\ ScoreOf(ov_swapped) = score
            /\ ~FLess(score, Zero) /\ ~FLess(One, score)
            /\ (P = T /\ P # {}) => score = One
            /\ P \cap T = {} => score = Zero

\* two lists that share one of three labels were scored
C9_Witness ==
    /\ ov_result # NoResult
    /\ ov_result.kind = "dict"
    /\ ov_result.score = <<1, 3>>

\* C10: for any two lists calculate_overlap returns a result with the
\* fields score, overlap, missed and extra, its score 0 when a normalized
\* set is empty.
C10_ResultAlwaysHasAScoreField ==
    ov_result # NoResult =>
        /\ ov_result.kind = "dict"
        /\ (LabelSet(ov_pred) = {} \/ LabelSet(ov_truth) = {}) => ov_result.score = Zero

-----------------------------------------------------------------------------
(* Properties of the difference report *)

\* C11 (as stated): accuracy and precision are both 1 exactly when the
\* normalized predicted set equals the normalized truth set, two empty sets
\* included.
C11_PerfectIffEqualSets ==
    df_result # NoResult =>
        ((df_result.report.accuracy = One /\ df_result.report.precision = One)
            <=> LabelSet(df_pred) = LabelSet(df_truth))

\* C11 (amended): accuracy and precision are both 1 exactly when the
\* normalized predicted set equals the normalized truth set and is not
\* empty; for two empty sets both are 0.
C11_PerfectIffEqualNonEmptySets ==
    df_result # NoResult =>
        /\ (df_result.report.accuracy = One /\ df_result.report.precision = One)
               <=> (LabelSet(df_pred) = LabelSet(df_truth) /\ LabelSet(df_pred) # {})
        /\ (LabelSet(df_pred) = {} /\ LabelSet(df_truth) = {}) =>
               (df_result.report.accuracy = Zero /\ df_result.report.precision = Zero)

\* two lists that differ as written and are equal once normalized
C11_Witness ==
    /\ df_result # NoResult
    /\ df_pred = << <<"A", ".">>, <<"b">> >>
    /\ df_truth = << <<" ", "b">>, <<"a">> >>
    /\ df_result.report.accuracy = One
    /\ df_result.report.precision = One

\* a label as the normalizer leaves it: no capital letter, no white space or
\* punctuation at either end
IsNormalized(label) ==
    /\ \A k \in 1..Len(label) : label[k] \notin {"A", "B"}
    /\ label # <<>> => (label[1] \notin StripChars /\ label[Len(label)] \notin StripChars)

\* n / d as a fraction equals x
IsRatio(x, n, d) == x[1] * d = n * x[2]

\* C12: with P and T the normalized sets of the two lists, the report has
\* correct = P n T, missed = T \ P, wrong = P \ T, accuracy =
\* |correct| / max(|T|, 1) and precision = |correct| / max(|P|, 1); every
\* label of the report is normalized.
C12_ReportFields ==
    df_result # NoResult =>
        LET P == LabelSet(df_pred)
            T == LabelSet(df_truth)
            r == df_result.report
        IN  /\ r.correct_diagnoses = {x \in P : x \in T}
            /\ r.missed_diagnoses = {x \in T : x \notin P}
            /\ r.wrong_diagnoses = {x \in P : x \notin T}
            /\ IsRatio(r.accuracy, Cardinality(r.correct_diagnoses),
                       IF Cardinality(T) > 1 THEN Cardinality(T) ELSE 1)
            /\ IsRatio(r.precision, Cardinality(r.correct_diagnoses),
                       IF Cardinality(P) > 1 THEN Cardinality(P) ELSE 1)
            /\ \A x \in r.correct_diagnoses \cup r.missed_diagnoses
                                            \cup r.wrong_diagnoses : IsNormalized(x)

\* one of two truth labels was found, by a prediction written differently,
\* and the only prediction is right: recall 1/2, precision 1
C12_Witness ==
    /\ df_result # NoResult
    /\ df_pred = << <<"A", ".">> >>
    /\ df_truth = << <<"a">>, <<"b">> >>
    /\ df_result.report.accuracy = <<1, 2>>
    /\ df_result.report.precision = One
    /\ df_result.report.missed_diagnoses = {<<"b">>}

-----------------------------------------------------------------------------
(* Properties of the response parser *)

\* C13: for every text the parser returns a list and does not raise; the
\* list is empty for a text that does not decode to an object with a
\* diseases field and for an object that signals an error, whether or not
\* it holds a diseases field.
C13_ParserIsTotal ==
    parsed # NoResult =>
        /\ ~parsed.raised /\ ~fenced_parsed.raised
        /\ parsed.diseases \in Seq(Seq({"a", "b", " ", "FENCE", "5", "0", "[", "]", "'",
                                         ",", "{", "}", ":", "R"}))
        /\ response_text \in NoDiseasesTexts \cup ErrorTexts => parsed.diseases = <<>>
        /\ response_text \in ErrorTexts => fenced_parsed.diseases = <<>>

\* an object that signals an error and holds a diseases list was parsed
C13_Witness ==
    /\ parsed # NoResult
    /\ response_text \in ErrorTexts
    /\ HasKey(json_loads(response_text).v, "D")
    /\ parsed.diseases = <<>>

Range(list) == {list[k] : k \in 1..Len(list)}

DistinctNonEmpty(list) ==
    /\ list # <<>>
    /\ \A k \in 1..Len(list) : list[k] # <<>>
    /\ \A j, k \in 1..Len(list) : j # k => list[j] # list[k]

\* C14 (as stated): the encoding of a non-empty list of distinct non-empty
\* strings parses to the same set of strings.
C14_RoundTrip ==
    parsed # NoResult =>
        \A list \in DiseaseLists, indent \in BOOLEAN :
            (DistinctNonEmpty(list) /\ response_text = json_dumps(list, indent)) =>
                Range(parsed.diseases) = Range(list)

Trimmed(string) ==
    string # <<>> /\ string[1] \notin Whitespace /\ string[Len(string)] \notin Whitespace

\* C14 (amended): the encoding of a non-empty list of distinct non-empty
\* strings that neither begin nor end with white space parses to the same
\* strings in the same order.
C14_RoundTripOfTrimmedStrings ==
    parsed # NoResult =>
        \A list \in DiseaseLists, indent \in BOOLEAN :
            (/\ DistinctNonEmpty(list)
             /\ \A k \in 1..Len(list) : Trimmed(list[k])
             /\ response_text = json_dumps(list, indent)) =>
                parsed.diseases = list

\* the indented encoding of two strings was parsed
C14_Witness ==
    /\ parsed # NoResult
    /\ response_text = json_dumps(<< <<"b">>, <<"a">> >>, TRUE)
    /\ parsed.diseases = << <<"b">>, <<"a">> >>

\* C15: the encoding of a diseases list parses to the same list inside a
\* fenced block as it does bare.
C15_FenceTolerance ==
    parsed # NoResult =>
        (response_text \in EncodedTexts => fenced_parsed = parsed)

\* C16: every string the parser returns is non-empty and neither begins nor
\* ends with white space; a diseases field that holds one string gives the
\* list of that string alone; a string that occurs twice in the diseases
\* list occurs twice in the result.
C16_ElementsNonEmptyTrimmed ==
    parsed # NoResult =>
        /\ \A k \in 1..Len(parsed.diseases) : Trimmed(parsed.diseases[k])
        /\ \A string \in DiseaseStrings :
               (Strip(string, Whitespace) # <<>>
                    /\ response_text = SingleText(<<Q>> \o string \o <<Q>>)) =>
                   parsed.diseases = <<Strip(string, Whitespace)>>
        /\ \A string \in DiseaseStrings, indent \in BOOLEAN :
               (Trimmed(string) /\ response_text = json_dumps(<<string, string>>, indent)) =>
                   parsed.diseases = <<string, string>>

-----------------------------------------------------------------------------
(* Properties of the progress report *)

\* the mean of the recall of one or two cases, as a pair numerator, denominator
MeanRecall(results) ==
    LET a == results[1].differences.accuracy
    IN  IF Len(results) = 1 THEN a
        ELSE LET b == results[2].differences.accuracy
             IN  <<a[1] * b[2] + b[1] * a[2], 2 * a[2] * b[2]>>

\* x exceeds y; x and y differ by less than one hundredth
Exceeds(x, y) == x[1] * y[2] > y[1] * x[2]
Close(x, y) ==
    LET d == x[1] * y[2] - y[1] * x[2]
    IN  100 * (IF d < 0 THEN 0 - d ELSE d) < x[2] * y[2]

\* the classification of a history as the claim words it
Classified(history) ==
    LET n == Len(history)
        t == [k \in 1..n |-> MeanRecall(history[k].analysis_results)]
    IN  IF n >= 2 /\ Exceeds(t[n], t[n - 1]) THEN "improving"
        ELSE IF n >= 3 /\ Close(t[n], t[n - 1]) /\ Close(t[n - 1], t[n - 2])
             THEN "stagnating"
        ELSE "unstable"

Half == <<1, 2>>

ExamplesClassified ==
    /\ pg_history = HistoryOf(<< <<Half>>, <<Half>>, <<Half>> >>) => pg_status = "stagnating"
    /\ pg_history = HistoryOf(<< <<<<3, 10>>>>, <<Half>> >>) => pg_status = "improving"
    /\ pg_history = HistoryOf(<< <<<<9, 10>>>>, <<<<1, 5>>>> >>) => pg_status = "unstable"

\* C17 (as stated): the status of any history is improving when the last
\* trend value exceeds the one before, otherwise stagnating when there are
\* at least 3 trend values and the last two changes are both below 0.01,
\* otherwise unstable.
C17_ThreeWayClassification ==
    pg_status # "none" =>
        /\ pg_status = Classified(pg_history)
        /\ ExamplesClassified

\* C17 (amended): the same for a history that holds at least one record;
\* the status of the empty history is no_progress.
C17_ClassificationOfRecordedRounds ==
    pg_status # "none" =>
        /\ pg_history # <<>> => pg_status = Classified(pg_history)
        /\ pg_history = <<>> => pg_status = "no_progress"
        /\ ExamplesClassified

\* three rounds whose means, two of them over two cases, differ by less than
\* 0.01 without being equal
C17_Witness ==
    /\ pg_status = "stagnating"
    /\ pg_history = HistoryOf(<< <<Zero, One>>, <<<<101, 200>>>>, << Half, <<101, 200>> >> >>)

-----------------------------------------------------------------------------
(* Scenarios *)

\* C18 (as stated): with 3 cases and a predictor that always answers with
\* the ground truth of the case, round 1 has the aggregate 1 and the loop
\* ends after round 1 with the best score 1.
C18_ExactPredictorEndsRoundOne ==
    (predictor = "exact" /\ Len(all_cases) = 3) =>
        /\ i = 0
        /\ pc \in {"decide", "report", "done"} => avg_overlap = One
        /\ pc \in {"report", "done"} => best_avg_overlap = One
        /\ pc = "done" => report.total_iterations = 1

\* the case has a ground-truth label that is not blank
HasLabel(case) ==
    \E k \in 1..Len(case.gt_data.diseases) :
        Strip(case.gt_data.diseases[k], Whitespace) # <<>>

\* C18 (amended): the same, for 3 cases that each have at least one
\* ground-truth label.
C18_ExactPredictorOnLabelledCases ==
    (/\ predictor = "exact"
     /\ Len(all_cases) = 3
     /\ \A j \in 1..3 : HasLabel(all_cases[j])) =>
        /\ i = 0
        /\ pc \in {"decide", "report", "done"} =>
               (avg_overlap = One /\ total_files = 3)
        /\ pc \in {"report", "done"} =>
               (best_avg_overlap = One /\ best_prompt = new_prompt)
        /\ pc = "done" => report.total_iterations = 1

\* the run of three labelled cases has ended after its first round
C18_Witness ==
    /\ pc = "done"
    /\ predictor = "exact"
    /\ Len(all_cases) = 3
    /\ \A j \in 1..3 : HasLabel(all_cases[j])
    /\ all_cases[1].gt_data.diseases # all_cases[2].gt_data.diseases
    /\ report.total_iterations = 1
    /\ report.best_accuracy = One
    /\ saved_prompts = {1}

HasAnalysableCase ==
    \E j \in 1..Len(all_cases) : j <= BaseCases /\ all_cases[j].gt_data.kind = "dict"

RulesMissingInRoundTwo ==
    /\ pc = "generate"
    /\ i = 1
    /\ opt_content'.kind = "text"
    /\ opt_content'.text # <<>>
    /\ \A k \in 1..Len(opt_content'.text) : opt_content'.text[k] # "RULES"

\* C20 (as stated): then round 2 is evaluated with the prompt of round 1,
\* the rejection is logged, and the round goes on to its decision step.
C20_RoundTwoKeepsRoundOnePrompt ==
    [][/\ RulesMissingInRoundTwo =>
              /\ new_prompt' = new_prompt
              /\ warning' = "incomplete"
              /\ pc' = "progress"
       /\ (pc = "progress" /\ i = 1) => (pc' = "evaluate" /\ new_prompt' = new_prompt)
       /\ (pc = "evaluate" /\ i = 1) =>
              (pc' = "decide" /\ (all_cases # <<>> => sent_prompt' = new_prompt))]_vars

\* C20 (amended): then round 2 is evaluated with the best prompt held after
\* round 1, which is the prompt of round 1 when round 1 improved the score;
\* the rejection is logged, the record of round 2 holds that prompt as its
\* old and its new prompt, and the round goes on to its decision step.
C20_RoundTwoKeepsBestPrompt ==
    [][/\ RulesMissingInRoundTwo =>
              /\ new_prompt' = best_prompt
              /\ 1 \in saved_prompts => new_prompt' = new_prompt
              /\ warning' = "incomplete"
              /\ pc' = "progress"
              /\ Len(optimization_history') = Len(optimization_history) + 1
              /\ LET record == optimization_history'[Len(optimization_history')]
                 IN  /\ record.iteration = 2
                     /\ record.old_prompt = best_prompt
                     /\ record.new_prompt = best_prompt
       /\ (pc = "progress" /\ i = 1) =>
              (pc' = "evaluate" /\ new_prompt' = new_prompt /\ best_prompt' = best_prompt)
       /\ (pc = "evaluate" /\ i = 1) =>
              (pc' = "decide" /\ (all_cases # <<>> => sent_prompt' = new_prompt))]_vars

\* round 1 was evaluated with a prompt of the optimizer that did not improve
\* the score, and the candidate of round 2 lacks the rules marker
C20_Witness ==
    /\ pc = "progress"
    /\ i = 1
    /\ opt_content = TextContent(Without(WithRules("rules1"), "RULES"))
    /\ warning = "incomplete"
    /\ optimization_history[1].new_prompt = WithRules("rules1")
    /\ new_prompt = base_prompt_template
    /\ Len(optimization_history) = 2

-----------------------------------------------------------------------------
(* The run without a loaded case *)

\* C21: when no valid case is loaded the run is aborted before any round is
\* executed: no round is begun or counted, no call is made to the optimizer
\* or to the predictor, and the report does not count a round.
C21_NoCaseNoRound ==
    all_cases = <<>> =>
        /\ current_iteration = 0
        /\ i = 0
        /\ opt_calls = 0
        /\ sent_prompt = <<>>
        /\ report.written => report.total_iterations = 0

-----------------------------------------------------------------------------
(* The request given to the optimizer service *)

\* the feedback bundle holds, for every case of the record, the predictions,
\* the truth, the missed and wrong labels and the analysis text of the
\* record, and the prompt and the summary of the record
BuiltFrom(previous_analysis, record) ==
    /\ previous_analysis.kind = "dict"
    /\ previous_analysis.prompt = record.new_prompt
    /\ previous_analysis.analysis_summary = record.summary
    /\ Len(previous_analysis.case_analyses) = Len(record.analysis_results)
    /\ \A k \in 1..Len(record.analysis_results) :
           LET case_analysis == previous_analysis.case_analyses[k]
               result == record.analysis_results[k]
           IN  /\ case_analysis.case_id = result.case_id
               /\ case_analysis.predictions = result.predictions
               /\ case_analysis.ground_truth = result.ground_truth
               /\ case_analysis.missed_diagnoses = result.differences.missed_diagnoses
               /\ case_analysis.wrong_diagnoses = result.differences.wrong_diagnoses
               /\ case_analysis.analysis_report = result.analysis_report

\* C22: the request of round 1 carries no feedback; the request of every
\* later round carries a feedback bundle built from the most recent record
\* of the history; every request carries the current best prompt and the
\* round index.
C22_RequestCarriesLatestFeedback ==
    [][(pc = "generate" /\ opt_request'.kind = "request") =>
           /\ opt_request'.base_prompt = best_prompt
           /\ opt_request'.iteration = i + 1
           /\ i + 1 = 1 => opt_request'.previous_analysis = None
           /\ i + 1 > 1 =>
                  /\ optimization_history # <<>>
                  /\ BuiltFrom(opt_request'.previous_analysis,
                               optimization_history[Len(optimization_history)])]_vars

\* a request of round 3, when the records of rounds 1 and 2 hold different
\* predictions
C22_Witness ==
    /\ pc = "progress"
    /\ i = 2
    /\ opt_request.kind = "request"
    /\ Len(optimization_history) = 3
    /\ optimization_history[1].analysis_results # optimization_history[2].analysis_results
    /\ opt_request.previous_analysis.case_analyses[1].predictions =
           optimization_history[2].analysis_results[1].predictions
    /\ opt_request.previous_analysis.case_analyses[1].predictions #
           optimization_history[1].analysis_results[1].predictions

-----------------------------------------------------------------------------
(* The calls of one prediction *)

\* the strings of the list of an answer
StringsOf(response) == [k \in 1..Len(response.diseases) |-> response.diseases[k].s]

\* the attempts whose answer holds a label
NonEmptyAttempts == {k \in 1..max_retries : pd_responses[k].diseases # <<>>}

\* C23: one prediction makes at least 1 and at most max_retries calls; it
\* returns the list of the first attempt whose list is not empty and calls
\* no more after it; when every attempt yields the empty list it returns the
\* empty list, after max_retries calls; it always returns a list.
C23_PredictionCalls ==
    pd_result # NoResult =>
        /\ pd_result.kind = "list"
        /\ pd_result.calls \in 1..max_retries
        /\ NonEmptyAttempts # {} =>
               LET first == CHOOSE k \in NonEmptyAttempts :
                                \A j \in NonEmptyAttempts : k <= j
               IN  /\ pd_result.calls = first
                   /\ pd_result.diseases = StringsOf(pd_responses[first])
        /\ NonEmptyAttempts = {} =>
               /\ pd_result.calls = max_retries
               /\ pd_result.diseases = <<>>

\* the second attempt was the first to answer with labels, and the third
\* attempt would have answered with other labels
C23_Witness ==
    /\ pd_result # NoResult
    /\ pd_result.calls = 2
    /\ pd_result.diseases = << <<"b">> >>
    /\ pd_responses[1] = RespEmpty
    /\ pd_responses[3].diseases = <<StrVal(<<"a">>)>>

-----------------------------------------------------------------------------
(* The round whose optimizer calls all fail *)

\* every attempt of the optimizer call of this round has failed
AllAttemptsFail == pc = "generate" /\ opt_content' = ErrorContent

\* the record of this round, appended with the best prompt as its old and
\* its new prompt
RecordedWithBestPrompt ==
    /\ Len(optimization_history') = Len(optimization_history) + 1
    /\ SubSeq(optimization_history', 1, Len(optimization_history)) = optimization_history
    /\ LET record == optimization_history'[Len(optimization_history')]
       IN  /\ record.iteration = i + 1
           /\ record.old_prompt = best_prompt
           /\ record.new_prompt = best_prompt

\* generation yields the best prompt, and the cases of the context are
\* predicted with it
YieldsBestPrompt ==
    /\ opt_calls' = retries
    /\ new_prompt' = best_prompt
    /\ best_prompt' = best_prompt
    /\ analysed' = Len(ContextCases)
    /\ sent_prompt' = best_prompt
    /\ pc' = "progress"

\* the round goes on from generation to its decision step with the prompt
\* that generation yielded
GoesOnToDecision ==
    /\ pc = "progress" => (pc' = "evaluate" /\ new_prompt' = new_prompt)
    /\ pc = "evaluate" =>
           /\ pc' = "decide"
           /\ new_prompt' = new_prompt
           /\ all_cases # <<>> => sent_prompt' = new_prompt

ContextHasAnalysableCase ==
    \E j \in 1..Len(ContextCases) : ContextCases[j].gt_data.kind = "dict"

-----------------------------------------------------------------------------
(* The history as a log *)

\* the round indexes of the records grow strictly
IncreasingRounds(history) ==
    \A k \in 1..Len(history) - 1 : history[k].iteration < history[k + 1].iteration

\* C25: the history is an append-only ordered log: a step leaves it as it
\* is or appends one record to it, the record of the round in progress,
\* whose index is greater than the index of every record before it; no
\* record is changed or removed.
C25_HistoryIsAppendOnly ==
    [][/\ \/ optimization_history' = optimization_history
          \/ /\ pc = "generate"
             /\ Len(optimization_history') = Len(optimization_history) + 1
             /\ SubSeq(optimization_history', 1, Len(optimization_history))
                    = optimization_history
             /\ optimization_history'[Len(optimization_history')].iteration = i + 1
       /\ IncreasingRounds(optimization_history')
       /\ Len(optimization_history') <= i + 1]_vars

\* three rounds have each appended their record
C25_Witness ==
    /\ pc = "generate"
    /\ i = 3
    /\ Len(optimization_history) = 3
    /\ optimization_history[1].iteration = 1
    /\ optimization_history[3].iteration = 3
    /\ optimization_history[1].new_prompt # optimization_history[3].new_prompt

-----------------------------------------------------------------------------
(* The order of the rounds *)

\* round i + 1 is about to generate its prompt, and a round came before it
NextRoundBegins == pc = "generate" /\ i >= 1

\* the decision step of round i is over: the best score is not below the
\* score of the round, the results of the round are saved, and neither the
\* stagnation threshold nor the round limit has ended the loop
DecisionCompleted ==
    /\ current_iteration = i
    /\ ~FLess(best_avg_overlap, avg_overlap)
    /\ i \in saved_results
    /\ stagnation_count < StopThreshold
    /\ i < max_iterations

\* the last record of the history is the record of round i
HoldsRecordOfRound ==
    /\ optimization_history # <<>>
    /\ optimization_history[Len(optimization_history)].iteration = i

-----------------------------------------------------------------------------
(* What the run leaves behind *)

\* C27: when the loop has ended, every executed round, the last one
\* included, has saved its results, and the report holds the number of
\* executed rounds and the best score.
C27_EveryRoundIsSaved ==
    /\ pc \in {"report", "done"} => saved_results = 1..(i + 1)
    /\ pc = "done" =>
           /\ report.written
           /\ report.total_iterations = i + 1
           /\ report.best_accuracy = best_avg_overlap

-----------------------------------------------------------------------------
(* The members of the label sets *)

\* C28: the label sets built by the scorer hold no empty string: a label
\* that is empty, or empty once stripped, is in none of the correct, missed
\* and wrong sets of the difference report (whose unions are the predicted
\* set and the truth set), nor in the sets of the overlap result.
C28_NoEmptyLabelInSets ==
    /\ df_result.kind = "dict" =>
           <<>> \notin df_result.report.correct_diagnoses
                           \cup df_result.report.missed_diagnoses
                           \cup df_result.report.wrong_diagnoses
    /\ ov_result.kind = "dict" =>
           <<>> \notin ov_result.overlap_diseases
                           \cup ov_result.missed_diseases
                           \cup ov_result.extra_diseases

-----------------------------------------------------------------------------
(* The best score over the run *)

FMax(x, y) == IF FLess(x, y) THEN y ELSE x

InUnitInterval(x) == ~FLess(x, Zero) /\ ~FLess(One, x)

-----------------------------------------------------------------------------
(* The round that ends the loop on a perfect score *)

\* the loop has ended in the decision step of a round whose aggregate is 1
EndedOnPerfectScore ==
    /\ pc \in {"report", "done"}
    /\ avg_overlap = One
    /\ best_avg_overlap = One
    /\ (i + 1) \in saved_prompts

\* C30: when the loop ends because the aggregate of a round is 1, every
\* loaded case was scored in that round, and its normalized predicted set
\* equals its normalized truth set.
C30_PerfectScoreCoversEveryCase ==
    EndedOnPerfectScore =>
        /\ total_files = Len(all_cases)
        /\ \A j \in 1..Len(all_cases) :
               LabelSet(predicted[j])
                   = LabelSet(process_input_data(all_cases[j].gt_data.diseases))

-----------------------------------------------------------------------------
(* The run whose first round leaves no record *)

\* a round after the first begins with an empty history
LaterRoundWithoutHistory == pc = "generate" /\ i >= 1 /\ optimization_history = <<>>

\* C31: when round 1 has appended no record, the generation step of every
\* later round returns the best prompt, calls neither service and appends
\* no record, so that the history stays empty; the stagnation counter stays
\* at 0 and the loop ends only on the round limit or on a perfect score.
C31_EmptyHistoryStaysEmpty ==
    [][/\ LaterRoundWithoutHistory =>
              /\ new_prompt' = best_prompt
              /\ opt_calls' = 0
              /\ opt_request' = NoRequest
              /\ analysed' = 0
              /\ sent_prompt' = sent_prompt
              /\ optimization_history' = <<>>
              /\ pc' = "progress"
       /\ (i >= 1 /\ optimization_history = <<>>) =>
              /\ optimization_history' = <<>>
              /\ stagnation_count' = 0
              /\ (pc = "decide" /\ pc' = "report") =>
                     (i + 1 = max_iterations \/ avg_overlap = One)]_vars

\* a run whose single case could not be analysed has ended on the round
\* limit with an empty history
C31_Witness ==
    /\ pc = "done"
    /\ all_cases = <<ListCase>>
    /\ optimization_history = <<>>
    /\ report.total_iterations = max_iterations
    /\ FLess(best_avg_overlap, One)

-----------------------------------------------------------------------------
(* The range of the stagnation counter *)

\* C32: stagnation_count stays between 0 and the stop threshold; a round
\* changes it once, after generation, by adding 1 when the history is
\* classified stagnating, which needs three records, and by resetting it to
\* 0 otherwise; the loop does not end on the stagnation threshold before
\* the end of round 7.
C32_StagnationCountRange ==
    [][/\ stagnation_count \in 0..StopThreshold
       /\ stagnation_count' \in 0..StopThreshold
       /\ pc # "progress" => stagnation_count' = stagnation_count
       /\ pc = "progress" =>
              LET status == evaluate_optimization_progress(optimization_history)
              IN  /\ status = "stagnating" =>
                         /\ stagnation_count' = stagnation_count + 1
                         /\ Len(optimization_history) >= 3
                  /\ status # "stagnating" => stagnation_count' = 0
       /\ stagnation_count' >= StopThreshold => i' + 1 >= 7
       /\ (pc = "decide" /\ pc' = "report" /\ i + 1 < 7) =>
              (avg_overlap = One /\ stagnation_count < StopThreshold)]_vars

\* the counter has reached the threshold and ended the loop, in round 7 or
\* later, every round having appended its record
C32_Witness ==
    /\ pc = "done"
    /\ stagnation_count = StopThreshold
    /\ report.total_iterations >= 7
    /\ FLess(best_avg_overlap, One)
    /\ Len(optimization_history) = report.total_iterations

====
